---- MODULE Spec2Model ----
(***************************************************************************)
(* Model of github.com/zchee/go-darkness/reflection: the Name record       *)
(* codec of reflection/type.go (NewName and the decoding methods of Name)  *)
(* and the example driver of reflection/main.go.                           *)
(*                                                                         *)
(* Memory is a sequence of blocks of bytes.  Block 1 is the module data    *)
(* the Go toolchain emitted for the running program (the name records of   *)
(* its types); every later block is a buffer allocated by NewName.  A      *)
(* pointer is a block and a byte offset in it; Go strings are the          *)
(* StringHeader the code builds, a pointer and a length.                   *)
(***************************************************************************)
EXTENDS Integers, Sequences, FiniteSets, TLC

VARIABLES
    heap,       \* the blocks of memory: heap[1] module data, then NewName's buffers
    made,       \* made[k]: the arguments of the NewName call that allocated heap[k+1]
    decl,       \* the struct declaration the module data was compiled from
    st,         \* the StructType descriptor of that declaration
    bigEndian,  \* byte order of the build target (GOARCH)
    i,          \* main: index of the range loop over st.Fields
    printed,    \* main: what the loop has printed so far
    names,      \* the Name values the program holds: the module's and NewName's
    ret,        \* the last call: its operation, receiver, inputs and result
    halted      \* a panic has ended the program

vars == <<heap, made, decl, st, bigEndian, i, printed, names, ret, halted>>

----------------------------------------------------------------------------
(* Bounds of the model *)

\* longest string of the exhaustive input alphabet
MaxLen == 2
\* most buffers NewName allocates in one run of the library specification
MaxAllocs == 1
\* most fields of a declared struct
MaxFields == 3

----------------------------------------------------------------------------
(* Machine arithmetic *)

MaxUint16 == 65535

Uint8(x) == x % 256

Uint16(x) == x % 65536

\* x << 8 and x >> 8
Shl8(x) == x * 256

Shr8(x) == x \div 256

RECURSIVE BitAnd(_, _)
BitAnd(a, b) ==
    IF a = 0 \/ b = 0 THEN 0
    ELSE (IF a % 2 = 1 /\ b % 2 = 1 THEN 1 ELSE 0) + 2 * BitAnd(a \div 2, b \div 2)

RECURSIVE BitOr(_, _)
BitOr(a, b) ==
    IF a = 0 THEN b
    ELSE IF b = 0 THEN a
    ELSE (IF a % 2 = 1 \/ b % 2 = 1 THEN 1 ELSE 0) + 2 * BitOr(a \div 2, b \div 2)

\* the bits of the first byte of a Name record
ExportedBit == 1

TagBit == 2

PkgPathBit == 4

----------------------------------------------------------------------------
(* Pointers and memory *)

Nil == [blk |-> 0, off |-> 0]

\* what an out-of-bounds load may yield
Junk == {0, 255}

\* func Add(p unsafe.Pointer, x uintptr, whySafe string) unsafe.Pointer
Add(p, x) == [blk |-> p.blk, off |-> p.off + x]

\* func (n Name) Data(off int, whySafe string) *byte
Data(n, off) == Add(n, off)

InBounds(h, p) == p.blk \in 1..Len(h) /\ p.off >= 0 /\ p.off < Len(h[p.blk])

\* *p
Load(h, p, j) == IF InBounds(h, p) THEN h[p.blk][p.off + 1] ELSE j

\* type StringHeader struct { Data unsafe.Pointer; Len int }
EmptyString == [Data |-> Nil, Len |-> 0]

\* whether every byte a string covers lies in one block of memory
SpanInBounds(h, s) ==
    s.Len = 0 \/ (InBounds(h, s.Data) /\ s.Data.off + s.Len <= Len(h[s.Data.blk]))

\* the bytes of a string
StringBytes(h, s, j) ==
    IF s.Len = 0 THEN <<>>
    ELSE IF SpanInBounds(h, s)
    THEN SubSeq(h[s.Data.blk], s.Data.off + 1, s.Data.off + s.Len)
    ELSE [k \in 1..s.Len |-> Load(h, Add(s.Data, k - 1), j)]

----------------------------------------------------------------------------
(* The decoding methods of Name.  Each yields its value and the set rd of  *)
(* pointers it dereferences.                                               *)

\* func (n Name) IsExported() bool
IsExported(h, n, j) ==
    [val |-> BitAnd(Load(h, n, j), ExportedBit) # 0, rd |-> {n}]

\* GetLen with the shift made in the byte, before the conversion: uint16(hi<<8)
GetLen_ByteShift(hi, lo) == BitOr(Uint16(Uint8(Shl8(hi))), lo)

\* uint16(hi)<<8 | uint16(lo)
GetLen(hi, lo) == BitOr(Uint16(Shl8(hi)), lo)

\* func (n Name) NameLen() int
NameLen(h, n, j) ==
    [val |-> GetLen(Load(h, Data(n, 1), j), Load(h, Data(n, 2), j)),
     rd  |-> {Data(n, 1), Data(n, 2)}]

\* TagLen without the test of the has-tag bit
TagLen_NoFlagCheck(h, n, j) ==
    LET nl  == NameLen(h, n, j)
        off == 3 + nl.val
    IN  [val |-> GetLen(Load(h, Data(n, off), j), Load(h, Data(n, off + 1), j)),
         rd  |-> {Data(n, 0)} \cup nl.rd \cup {Data(n, off), Data(n, off + 1)}]

\* TagLen reading the length one byte early, at 2 + NameLen()
TagLen_OneEarly(h, n, j) ==
    IF BitAnd(Load(h, Data(n, 0), j), TagBit) = 0
    THEN [val |-> 0, rd |-> {Data(n, 0)}]
    ELSE LET nl  == NameLen(h, n, j)
             off == 2 + nl.val
         IN  [val |-> GetLen(Load(h, Data(n, off), j), Load(h, Data(n, off + 1), j)),
              rd  |-> {Data(n, 0)} \cup nl.rd \cup {Data(n, off), Data(n, off + 1)}]

\* func (n Name) TagLen() int
TagLen(h, n, j) ==
    IF BitAnd(Load(h, Data(n, 0), j), TagBit) = 0
    THEN [val |-> 0, rd |-> {Data(n, 0)}]
    ELSE LET nl  == NameLen(h, n, j)
             off == 3 + nl.val
         IN  [val |-> GetLen(Load(h, Data(n, off), j), Load(h, Data(n, off + 1), j)),
              rd  |-> {Data(n, 0)} \cup nl.rd \cup {Data(n, off), Data(n, off + 1)}]

\* Name taking the length from the low byte alone
Name_LowByteOnly(h, n, j) ==
    IF n = Nil
    THEN [val |-> EmptyString, rd |-> {}]
    ELSE [val |-> [Data |-> Add(n, 3), Len |-> Load(h, Add(n, 2), j)],
          rd  |-> {Add(n, 1), Add(n, 2)}]

\* func (n Name) Name() (s string)
Name(h, n, j) ==
    IF n = Nil
    THEN [val |-> EmptyString, rd |-> {}]
    ELSE [val |-> [Data |-> Add(n, 3),
                   Len  |-> BitOr(Shl8(Load(h, Add(n, 1), j)), Load(h, Add(n, 2), j))],
          rd  |-> {Add(n, 1), Add(n, 2)}]

\* Tag starting at the two bytes of the tag length, not past them
Tag_AtLength(h, n, j) ==
    LET tl == TagLen(h, n, j)
    IN  IF tl.val = 0
        THEN [val |-> EmptyString, rd |-> tl.rd]
        ELSE LET nl == NameLen(h, n, j)
             IN  [val |-> [Data |-> Data(n, 3 + nl.val), Len |-> tl.val],
                  rd  |-> tl.rd \cup nl.rd]

\* func (n Name) Tag() (s string)
Tag(h, n, j) ==
    LET tl == TagLen(h, n, j)
    IN  IF tl.val = 0
        THEN [val |-> EmptyString, rd |-> tl.rd]
        ELSE LET nl == NameLen(h, n, j)
             IN  [val |-> [Data |-> Data(n, 3 + nl.val + 2), Len |-> tl.val],
                  rd  |-> tl.rd \cup nl.rd]

\* the int32 that copy() assembles from four bytes in the target's byte order
Int32FromBytes(b, be) ==
    LET le  == IF be THEN <<b[4], b[3], b[2], b[1]>> ELSE b
        top == IF le[4] >= 128 THEN le[4] - 256 ELSE le[4]
    IN  top * 16777216 + (le[3] * 256 + le[2]) * 256 + le[1]

\* PkgPath: the place of the nameOff field, past the name and the tag
PkgPathOff(h, n, j) ==
    LET nl == NameLen(h, n, j)
        tl == TagLen(h, n, j)
    IN  [val |-> 3 + nl.val + (IF tl.val > 0 THEN 2 + tl.val ELSE 0),
         rd  |-> nl.rd \cup tl.rd]

NoCall == [fn |-> "none", base |-> Nil, off |-> 0, res |-> Nil]

\* the resolver PkgPath calls
PkgPathResolver == "ResolveTypeOff"

\* func (n Name) PkgPath() string; res is what the resolver answers
PkgPath(h, n, j, be, res) ==
    IF n = Nil
    THEN [val |-> EmptyString, rd |-> {}, call |-> NoCall]
    ELSE IF BitAnd(Load(h, Data(n, 0), j), PkgPathBit) = 0
    THEN [val |-> EmptyString, rd |-> {Data(n, 0)}, call |-> NoCall]
    ELSE LET off     == PkgPathOff(h, n, j)
             field   == {Data(n, off.val + k) : k \in 0..3}
             nameOff == Int32FromBytes([k \in 1..4 |-> Load(h, Data(n, off.val + k - 1), j)], be)
             inner   == Name(h, res, j)
         IN  [val  |-> inner.val,
              rd   |-> {Data(n, 0)} \cup off.rd \cup field \cup inner.rd,
              call |-> [fn |-> PkgPathResolver, base |-> n, off |-> nameOff, res |-> res]]

----------------------------------------------------------------------------
(* NewName *)

\* NewNamePanic with the limit of one length byte on the identifier: len(n) > 1<<8-1
NewNamePanic_ByteLimit(n, tag) ==
    IF Len(n) > 255 THEN "reflect.nameFrom: name too long: "
    ELSE IF Len(tag) > MaxUint16 THEN "reflect.nameFrom: tag too long: "
    ELSE ""

\* the panics of NewName: which argument is too long, if any
NewNamePanic(n, tag) ==
    IF Len(n) > MaxUint16 THEN "reflect.nameFrom: name too long: "
    ELSE IF Len(tag) > MaxUint16 THEN "reflect.nameFrom: tag too long: "
    ELSE ""

\* NewNameBits marking a tag with 1<<2, the bit of the package path
NewNameBits_TagAsPkgPath(tag, exported) ==
    BitOr(IF exported THEN ExportedBit ELSE 0, IF Len(tag) > 0 THEN PkgPathBit ELSE 0)

\* var bits byte, after the two ifs
NewNameBits(tag, exported) ==
    BitOr(IF exported THEN ExportedBit ELSE 0, IF Len(tag) > 0 THEN TagBit ELSE 0)

\* l, after the two ifs
NewNameLen(n, tag) == 1 + 2 + Len(n) + (IF Len(tag) > 0 THEN 2 + Len(tag) ELSE 0)

\* b[at] = v
Store(b, at, v) == [b EXCEPT ![at + 1] = v]

\* copy(b[at:], src)
CopyAt(b, at, src) ==
    LET m == IF Len(src) < Len(b) - at THEN Len(src) ELSE Len(b) - at
    IN  SubSeq(b, 1, at) \o SubSeq(src, 1, m) \o SubSeq(b, at + m + 1, Len(b))

\* the two bytes a length is stored in: uint8(l >> 8), uint8(l)
PutLen(l) == <<Uint8(Shr8(l)), Uint8(l)>>

\* NewNameHead storing the length low byte first
NewNameHead_LowFirst(b, n, tag, exported) ==
    CopyAt(Store(Store(Store(b, 0, NewNameBits(tag, exported)),
                       1, PutLen(Len(n))[2]),
                 2, PutLen(Len(n))[1]),
           3, n)

\* the name part: b[0] = bits; b[1], b[2] = len(n); copy(b[3:], n)
NewNameHead(b, n, tag, exported) ==
    CopyAt(Store(Store(Store(b, 0, NewNameBits(tag, exported)),
                       1, PutLen(Len(n))[1]),
                 2, PutLen(Len(n))[2]),
           3, n)

\* the tag part: tb := b[3+len(n):]; tb[0], tb[1] = len(tag); copy(tb[2:], tag)
NewNameTag(b, n, tag) ==
    IF Len(tag) > 0
    THEN CopyAt(Store(Store(b, 3 + Len(n), PutLen(Len(tag))[1]),
                      3 + Len(n) + 1, PutLen(Len(tag))[2]),
                3 + Len(n) + 2, tag)
    ELSE b

\* the buffer NewName fills: b := make([]byte, l) and the writes after it
NewNameBuf(n, tag, exported) ==
    NewNameTag(NewNameHead([k \in 1..NewNameLen(n, tag) |-> 0], n, tag, exported), n, tag)

----------------------------------------------------------------------------
(* The module data of the running program, laid out as the comment on      *)
(* type Name describes.                                                    *)

\* a name the toolchain emits: text, tag, exported, and the nameOff of its
\* import path when pkg
NameDesc(n, tag, exported, pkg, off) ==
    [n |-> n, tag |-> tag, exported |-> exported, pkg |-> pkg, off |-> off]

U16BE(x) == <<Uint8(Shr8(x)), Uint8(x)>>

Int32Bytes(v, be) ==
    LET low == v % 16777216
        le  == <<low % 256, (low \div 256) % 256, low \div 65536,
                 ((v - low) \div 16777216) % 256>>
    IN  IF be THEN <<le[4], le[3], le[2], le[1]>> ELSE le

EncodeName(d, be) ==
    <<BitOr(BitOr(IF d.exported THEN ExportedBit ELSE 0,
                  IF Len(d.tag) > 0 THEN TagBit ELSE 0),
            IF d.pkg THEN PkgPathBit ELSE 0)>>
    \o U16BE(Len(d.n)) \o d.n
    \o (IF Len(d.tag) > 0 THEN U16BE(Len(d.tag)) \o d.tag ELSE <<>>)
    \o (IF d.pkg THEN Int32Bytes(d.off, be) ELSE <<>>)

RECURSIVE EncodeAll(_, _)
EncodeAll(ds, be) ==
    IF ds = <<>> THEN <<>> ELSE EncodeName(Head(ds), be) \o EncodeAll(Tail(ds), be)

\* the address of the k-th of the names ds in the module data
NameAddr(ds, k, be) == [blk |-> 1, off |-> Len(EncodeAll(SubSeq(ds, 1, k - 1), be))]

----------------------------------------------------------------------------
(* Text, as bytes *)

sX == <<120>>

sField == <<70, 105, 101, 108, 100>>

\* json:"f"
sJsonF == <<106, 115, 111, 110, 58, 34, 102, 34>>

sMain == <<109, 97, 105, 110>>

\* a text of the given length whose bytes differ from place to place
Long(len) == [k \in 1..len |-> 1 + (k % 251)]

Alphabet == {97, 98}

\* every text over the alphabet of length at most len
RECURSIVE Strs(_)
Strs(len) ==
    IF len = 0 THEN {<<>>}
    ELSE LET shorter == Strs(len - 1)
         IN  shorter \cup {Append(s, c) : s \in {t \in shorter : Len(t) = len - 1}, c \in Alphabet}

\* the arguments the library specification passes to NewName
SampleIdents == {sField}

SampleTags == {<<>>, sJsonF}

\* the arguments of the single-construction specification: every short text
\* and the lengths around the byte and the 16-bit limits
WideIdents ==
    Strs(MaxLen) \cup {sX, sField}
    \cup {Long(l) : l \in {255, 256, 257, MaxUint16, MaxUint16 + 1}}

WideTags ==
    Strs(MaxLen) \cup {sJsonF}
    \cup {Long(l) : l \in {255, 256, MaxUint16, MaxUint16 + 1}}

----------------------------------------------------------------------------
(* The example driver's struct and the declarations like it *)

FieldA == [name |-> <<65>>,
           tag  |-> <<106, 115, 111, 110, 58, 34, 97, 44, 111, 109, 105, 116,
                      101, 109, 112, 116, 121, 34>>]

FieldB == [name |-> <<66>>,
           tag  |-> <<106, 115, 111, 110, 58, 34, 98, 44, 111, 109, 105, 116,
                      101, 109, 112, 116, 121, 34>>]

FieldC == [name |-> <<67>>,
           tag  |-> <<112, 114, 111, 116, 111, 98, 117, 102, 58, 34, 118, 97, 114,
                      105, 110, 116, 44, 49, 44, 111, 112, 116, 44, 110, 97, 109,
                      101, 61, 99, 44, 112, 114, 111, 116, 111, 51, 34, 32, 106,
                      115, 111, 110, 58, 34, 99, 44, 111, 109, 105, 116, 101, 109,
                      112, 116, 121, 34, 32, 121, 97, 109, 108, 58, 34, 99, 44,
                      111, 109, 105, 116, 101, 109, 112, 116, 121, 34>>]

\* an unexported field without a tag, and one with a short tag
FieldD == [name |-> <<100>>, tag |-> <<>>]

FieldE == [name |-> <<69, 101>>, tag |-> <<116>>]

\* type example struct { A ...; B ...; C ... }
Example == <<FieldA, FieldB, FieldC>>

FieldDecls == {FieldA, FieldB, FieldC, FieldD, FieldE}

\* the struct declarations of at most MaxFields fields, no name twice
Decls ==
    UNION {{d \in [1..k -> FieldDecls] : \A a, b \in 1..k : a # b => d[a] # d[b]}
           : k \in 0..MaxFields}

IsUpper(c) == c >= 65 /\ c <= 90

\* names carrying the nameOff of an import path (a method of another package)
MethodNames ==
    <<NameDesc(<<109>>, <<>>, FALSE, TRUE, 258),
      NameDesc(sX, <<116>>, TRUE, TRUE, 0 - 2)>>

\* the names of the module: the package path, the fields, the method names
ModuleNames(d) ==
    <<NameDesc(sMain, <<>>, FALSE, FALSE, 0)>>
    \o [k \in 1..Len(d) |-> NameDesc(d[k].name, d[k].tag, IsUpper(d[k].name[1]), FALSE, 0)]
    \o MethodNames

ModuleData(d, be) == EncodeAll(ModuleNames(d), be)

ModuleAddrs(d, be) == {NameAddr(ModuleNames(d), k, be) : k \in 1..Len(ModuleNames(d))}

\* type StructType struct { rtype; PkgPath Name; Fields []StructField }
StructTypeOf(d, be) ==
    [PkgPath |-> NameAddr(ModuleNames(d), 1, be),
     Fields  |-> [k \in 1..Len(d) |-> [Name |-> NameAddr(ModuleNames(d), k + 1, be)]]]

----------------------------------------------------------------------------
(* State *)

NoInput == [n |-> <<>>, tag |-> <<>>, exported |-> FALSE]

Ret(op, n, in, val, text, rd, call) ==
    [op |-> op, n |-> n, in |-> in, val |-> val, text |-> text, rd |-> rd, call |-> call]

NoRet == Ret("none", Nil, NoInput, 0, <<>>, {}, NoCall)

InitOf(d) ==
    /\ decl = d
    /\ bigEndian \in BOOLEAN
    /\ heap = <<ModuleData(d, bigEndian)>>
    /\ made = <<>>
    /\ st = StructTypeOf(d, bigEndian)
    /\ i = 0
    /\ printed = <<>>
    /\ names = ModuleAddrs(d, bigEndian)
    /\ ret = NoRet
    /\ halted = FALSE

\* the library under the example program's module data
Init == InitOf(Example)

\* the driver under every declaration
InitMain == \E d \in Decls : InitOf(d)

\* return Name{bytes: &b[0]}
NewNameResult(blk) == [blk |-> blk, off |-> 0]

\* the names NewName has returned
Constructed == {NewNameResult(k) : k \in 2..Len(heap)}

\* what a resolver of the runtime may answer: no name, or a name of the module
ResolverResults == {Nil} \cup {n \in names : n.blk = 1}

----------------------------------------------------------------------------
(* Calls *)

\* CallNewName filling the newest block there is instead of a fresh one
CallNewName_ReuseBlock(n, tag, exported) ==
    /\ ~halted
    /\ Len(heap) <= MaxAllocs
    /\ LET in == [n |-> n, tag |-> tag, exported |-> exported]
           p  == NewNamePanic(n, tag)
           r  == NewNameResult(Len(heap))
       IN  IF p # ""
           THEN /\ halted' = TRUE
                /\ ret' = Ret("panic", Nil, in, p, <<>>, {}, NoCall)
                /\ UNCHANGED <<heap, made, names>>
           ELSE /\ heap' = [heap EXCEPT ![Len(heap)] = NewNameBuf(n, tag, exported)]
                /\ made' = made
                /\ names' = names \cup {r}
                /\ ret' = Ret("NewName", r, in, r, <<>>, {}, NoCall)
                /\ UNCHANGED halted
    /\ UNCHANGED <<decl, st, bigEndian, i, printed>>

\* NewName: the panic, or the buffer, allocated as a new block of memory
CallNewName(n, tag, exported) ==
    /\ ~halted
    /\ Len(heap) <= MaxAllocs
    /\ LET in == [n |-> n, tag |-> tag, exported |-> exported]
           p  == NewNamePanic(n, tag)
           r  == NewNameResult(Len(heap) + 1)
       IN  IF p # ""
           THEN /\ halted' = TRUE
                /\ ret' = Ret("panic", Nil, in, p, <<>>, {}, NoCall)
                /\ UNCHANGED <<heap, made, names>>
           ELSE /\ heap' = Append(heap, NewNameBuf(n, tag, exported))
                /\ made' = Append(made, in)
                /\ names' = names \cup {r}
                /\ ret' = Ret("NewName", r, in, r, <<>>, {}, NoCall)
                /\ UNCHANGED halted
    /\ UNCHANGED <<decl, st, bigEndian, i, printed>>

\* a decoding call: nothing but ret changes
Decoded(r) ==
    /\ ret' = r
    /\ UNCHANGED <<heap, made, decl, st, bigEndian, i, printed, names, halted>>

\* the values an out-of-bounds load of a call may yield: one when every
\* pointer in rd is in bounds, for then none is used
JunkOf(rd) == IF \A p \in rd : InBounds(heap, p) THEN {0} ELSE Junk

CallIsExported(n) ==
    /\ ~halted
    /\ \E j \in JunkOf(IsExported(heap, n, 0).rd) :
        LET r == IsExported(heap, n, j)
        IN  Decoded(Ret("IsExported", n, NoInput, r.val, <<>>, r.rd, NoCall))

CallNameLen(n) ==
    /\ ~halted
    /\ \E j \in JunkOf(NameLen(heap, n, 0).rd) :
        LET r == NameLen(heap, n, j)
        IN  Decoded(Ret("NameLen", n, NoInput, r.val, <<>>, r.rd, NoCall))

CallTagLen(n) ==
    /\ ~halted
    /\ \E j \in JunkOf(TagLen(heap, n, 0).rd) :
        LET r == TagLen(heap, n, j)
        IN  Decoded(Ret("TagLen", n, NoInput, r.val, <<>>, r.rd, NoCall))

\* the caller reads the text of the string Name returns
CallName(n) ==
    /\ ~halted
    /\ \E j \in (IF SpanInBounds(heap, Name(heap, n, 0).val)
                 THEN JunkOf(Name(heap, n, 0).rd) ELSE Junk) :
        LET r == Name(heap, n, j)
        IN  Decoded(Ret("Name", n, NoInput, r.val, StringBytes(heap, r.val, j), r.rd, NoCall))

CallTag(n) ==
    /\ ~halted
    /\ \E j \in (IF SpanInBounds(heap, Tag(heap, n, 0).val)
                 THEN JunkOf(Tag(heap, n, 0).rd) ELSE Junk) :
        LET r == Tag(heap, n, j)
        IN  Decoded(Ret("Tag", n, NoInput, r.val, StringBytes(heap, r.val, j), r.rd, NoCall))

\* the resolver is asked only when PkgPath calls it; res is its answer
CallPkgPath(n) ==
    /\ ~halted
    /\ \E j \in Junk :
        \E res \in (IF PkgPath(heap, n, j, bigEndian, Nil).call = NoCall
                    THEN {Nil} ELSE ResolverResults) :
            LET r == PkgPath(heap, n, j, bigEndian, res)
            IN  Decoded(Ret("PkgPath", n, NoInput, r.val, StringBytes(heap, r.val, j),
                            r.rd, r.call))

\* the decoding calls on a name the program holds
Decode ==
    \E n \in names :
        \/ CallIsExported(n)
        \/ CallNameLen(n)
        \/ CallTagLen(n)
        \/ CallName(n)
        \/ CallTag(n)
        \/ CallPkgPath(n)

Construct == \E n \in SampleIdents, tag \in SampleTags, e \in BOOLEAN : CallNewName(n, tag, e)

Next == Construct \/ Decode

\* the library: NewName on the sample arguments, at most MaxAllocs times,
\* and the decoding methods on every name
Spec == Init /\ [][Next]_vars

----------------------------------------------------------------------------
(* One construction on a fresh program, over the wide arguments *)

ConstructOnce ==
    /\ made = <<>>
    /\ ret.op = "none"
    /\ \E n \in WideIdents, tag \in WideTags, e \in BOOLEAN : CallNewName(n, tag, e)

DecodeConstructed ==
    \E n \in Constructed :
        \/ CallIsExported(n)
        \/ CallNameLen(n)
        \/ CallTagLen(n)
        \/ CallName(n)
        \/ CallTag(n)
        \/ CallPkgPath(n)

\* a length through the two bytes NewName stores and NameLen and TagLen read
LenBytes ==
    /\ ~halted
    /\ made = <<>>
    /\ ret.op = "none"
    /\ \E l \in 0..MaxUint16 :
        LET b == PutLen(l)
        IN  Decoded(Ret("len", Nil, NoInput, GetLen(b[1], b[2]), b, {}, [NoCall EXCEPT !.off = l]))

NextInputs == ConstructOnce \/ DecodeConstructed \/ LenBytes

SpecInputs == Init /\ [][NextInputs]_vars

----------------------------------------------------------------------------
(* The example driver *)

\* %8s: the text, padded on the left with spaces to the width
Pad(s, width) == IF Len(s) >= width THEN s ELSE [k \in 1..(width - Len(s)) |-> 32] \o s

\* fmt.Printf("Name: %s, Tag: %8s\n", name, tag)
Printf(name, tag) ==
    <<78, 97, 109, 101, 58, 32>> \o name \o <<44, 32, 84, 97, 103, 58, 32>> \o Pad(tag, 8) \o <<10>>

\* one pass of: for i := range st.Fields { f := st.Fields[i]; fmt.Printf(...) }
MainLoop ==
    /\ ~halted
    /\ i < Len(st.Fields)
    /\ LET f == st.Fields[i + 1]
       IN  \E j \in JunkOf(Name(heap, f.Name, 0).rd \cup Tag(heap, f.Name, 0).rd) :
               LET name == StringBytes(heap, Name(heap, f.Name, j).val, j)
                   tag  == StringBytes(heap, Tag(heap, f.Name, j).val, j)
               IN  printed' = Append(printed, [name |-> name, tag |-> tag,
                                               line |-> Printf(name, tag)])
    /\ i' = i + 1
    /\ UNCHANGED <<heap, made, decl, st, bigEndian, names, ret, halted>>

NextMain == MainLoop

SpecMain == InitMain /\ [][NextMain]_vars

----------------------------------------------------------------------------
(* Properties *)

DecodeOps == {"IsExported", "NameLen", "TagLen", "Name", "Tag", "PkgPath"}

\* whether the bit is set in the byte, by division
HasBit(b, bit) == (b \div bit) % 2 = 1

\* the first byte of the record a name points at
FlagOf(n) == heap[n.blk][n.off + 1]

\* the arguments the record of a constructed name was built from
MadeOf(n) == made[n.blk - 1]

\* the text of a string, whatever an out-of-bounds load yields
TextOf(s) == StringBytes(heap, s, 0)

\* C1: a record built by NewName from an identifier and a tag of at most
\* 65535 bytes decodes back to its arguments: Name() is the identifier,
\* Tag() the tag and IsExported() the exported flag.
C1_RoundTrip ==
    /\ \A n \in Constructed : \A j \in Junk :
        /\ Len(MadeOf(n).n) <= 65535 /\ Len(MadeOf(n).tag) <= 65535
        /\ StringBytes(heap, Name(heap, n, j).val, j) = MadeOf(n).n
        /\ StringBytes(heap, Tag(heap, n, j).val, j) = MadeOf(n).tag
        /\ IsExported(heap, n, j).val = MadeOf(n).exported
    /\ ret.n \in Constructed =>
        /\ ret.op = "Name" => ret.text = MadeOf(ret.n).n
        /\ ret.op = "Tag" => ret.text = MadeOf(ret.n).tag
        /\ ret.op = "IsExported" => ret.val = MadeOf(ret.n).exported

C1_Witness ==
    /\ ret.op = "Name"
    /\ ret.n \in Constructed
    /\ Len(MadeOf(ret.n).n) = 257
    /\ Len(MadeOf(ret.n).tag) = 256
    /\ MadeOf(ret.n).exported
    /\ ret.text = MadeOf(ret.n).n
    /\ TextOf(Tag(heap, ret.n, 0).val) = MadeOf(ret.n).tag

\* C2: NewName panics exactly when the identifier or the tag is longer than
\* 65535 bytes, and then before any buffer is allocated or written: memory
\* is the module data alone; otherwise it returns a record.
C2_PanicIffTooLong ==
    /\ ret.op = "panic" =>
        /\ Len(ret.in.n) > 65535 \/ Len(ret.in.tag) > 65535
        /\ halted
        /\ heap = <<ModuleData(decl, bigEndian)>>
        /\ made = <<>>
        /\ Constructed = {}
    /\ ret.op = "NewName" =>
        /\ Len(ret.in.n) <= 65535 /\ Len(ret.in.tag) <= 65535
        /\ ~halted
        /\ ret.val \in Constructed
        /\ MadeOf(ret.val) = ret.in
    /\ halted => ret.op = "panic"

C2_Witness ==
    /\ ret.op = "panic"
    /\ Len(ret.in.n) = 65536
    /\ Len(ret.in.tag) <= 65535
    /\ heap = <<ModuleData(decl, bigEndian)>>

\* C3: PkgPath returns the empty string whenever the has-package-path bit of
\* the flag byte is unset, whatever the other bits and the texts are, reading
\* the flag byte alone and calling no resolver; and so it does for every
\* record NewName returned.
C3_PkgPathEmpty ==
    /\ \A n \in Constructed : ~HasBit(FlagOf(n), 4)
    /\ ret.op = "PkgPath" /\ (ret.n \in Constructed \/ ~HasBit(FlagOf(ret.n), 4)) =>
        /\ ret.val = EmptyString
        /\ ret.text = <<>>
        /\ ret.call = NoCall
        /\ ret.rd = {ret.n}

C3_Witness ==
    /\ ret.op = "PkgPath"
    /\ ret.n \in Constructed
    /\ HasBit(FlagOf(ret.n), 1)
    /\ HasBit(FlagOf(ret.n), 2)
    /\ ret.val = EmptyString
    /\ ret.call = NoCall

\* the module name a pointer is the address of
DescOf(n) ==
    LET ds == ModuleNames(decl)
    IN  ds[CHOOSE k \in 1..Len(ds) : NameAddr(ds, k, bigEndian) = n]

\* what PkgPath does on a record whose has-package-path bit is set, calling
\* the resolver fn: it reads the nameOff stored past the name and the tag,
\* passes it to fn with the record's address as base, and returns the
\* identifier of the record at the address fn answers
PkgPathResolvesVia(fn) ==
    ret.op = "PkgPath" /\ ret.n.blk = 1 /\ HasBit(FlagOf(ret.n), 4) =>
        /\ ret.call.fn = fn
        /\ ret.call.base = ret.n
        /\ ret.call.off = DescOf(ret.n).off
        /\ {Add(ret.n, 3 + Len(DescOf(ret.n).n)
                       + (IF Len(DescOf(ret.n).tag) > 0 THEN 2 + Len(DescOf(ret.n).tag) ELSE 0)
                       + k) : k \in 0..3} \subseteq ret.rd
        /\ ret.text = (IF ret.call.res = Nil THEN <<>> ELSE DescOf(ret.call.res).n)

\* C4: when the has-package-path bit is set, PkgPath reads the 4-byte offset
\* at byte 3 + NameLen() (plus 2 + TagLen() when a tag is present), resolves
\* it by the name-offset resolver ResolveNameOff with the record's own
\* address as base, and returns the identifier of the record there.
C4_PkgPathViaResolveNameOff == PkgPathResolvesVia("ResolveNameOff")

\* the same of the resolver the code calls, ResolveTypeOff
PkgPathViaResolveTypeOff == PkgPathResolvesVia("ResolveTypeOff")

\* whether a constructed name was built from "Field" and json:"f"
FromFieldJson(n) == MadeOf(n).n = sField /\ MadeOf(n).tag = sJsonF

\* for the record built from "Field" and json:"f", TagLen() is len, Tag()
\* is json:"f" and Name() is "Field"
FieldJsonDecodes(len) ==
    /\ \A n \in Constructed : \A j \in Junk :
        FromFieldJson(n) =>
            /\ TagLen(heap, n, j).val = len
            /\ StringBytes(heap, Tag(heap, n, j).val, j) = sJsonF
            /\ StringBytes(heap, Name(heap, n, j).val, j) = sField
    /\ ret.n \in Constructed /\ FromFieldJson(ret.n) =>
        /\ ret.op = "TagLen" => ret.val = len
        /\ ret.op = "Tag" => ret.text = sJsonF
        /\ ret.op = "Name" => ret.text = sField

\* C5, as stated: for the record NewName builds from "Field" and json:"f",
\* TagLen() = 9, Tag() is json:"f" and Name() is "Field".
C5_FieldJsonTagLen9 == FieldJsonDecodes(9)

\* C5, amended: for the record NewName builds from "Field" and json:"f",
\* TagLen() = 8, the number of bytes of json:"f"; Tag() is json:"f" and
\* Name() is "Field".
C5_FieldJsonTagLen8 == FieldJsonDecodes(8)

C5_Witness ==
    /\ ret.op = "TagLen"
    /\ ret.n \in Constructed
    /\ FromFieldJson(ret.n)
    /\ ret.val = 8
    /\ Len(sJsonF) = 8

\* C6: the lengths a record of NewName decodes to are the lengths of its
\* arguments, NameLen() = len(n) and TagLen() = len(tag); with an empty tag
\* the has-tag bit is unset and TagLen() = 0; and the two bytes a length of
\* 0..65535 is split into, len >> 8 and len mod 256, recombine to it.
C6_LengthsDecode ==
    /\ \A n \in Constructed : \A j \in Junk :
        /\ NameLen(heap, n, j).val = Len(MadeOf(n).n)
        /\ TagLen(heap, n, j).val = Len(MadeOf(n).tag)
        /\ MadeOf(n).tag = <<>> => ~HasBit(FlagOf(n), 2) /\ TagLen(heap, n, j).val = 0
    /\ ret.n \in Constructed =>
        /\ ret.op = "NameLen" => ret.val = Len(MadeOf(ret.n).n)
        /\ ret.op = "TagLen" => ret.val = Len(MadeOf(ret.n).tag)
    /\ ret.op = "len" =>
        /\ ret.text = <<ret.call.off \div 256, ret.call.off % 256>>
        /\ ret.val = ret.call.off

C6_Witness ==
    /\ ret.op = "TagLen"
    /\ ret.n \in Constructed
    /\ MadeOf(ret.n) = [n |-> sX, tag |-> <<>>, exported |-> TRUE]
    /\ ret.val = 0
    /\ NameLen(heap, ret.n, 0).val = 1
    /\ IsExported(heap, ret.n, 0).val
    /\ TextOf(Name(heap, ret.n, 0).val) = sX

\* C7: the driver's loop over st.Fields visits the fields in the order of
\* the declaration, each once, and Name() and Tag() of each are the declared
\* name and the declared tag.
C7_FieldsInOrder ==
    /\ Len(printed) = i
    /\ i <= Len(decl)
    /\ Len(st.Fields) = Len(decl)
    /\ \A k \in 1..i :
        /\ printed[k].name = decl[k].name
        /\ printed[k].tag = decl[k].tag

C7_Witness ==
    /\ decl = Example
    /\ i = 3
    /\ printed[1].name = <<65>>
    /\ printed[2].name = <<66>>
    /\ printed[3].name = <<67>>
    /\ printed[3].tag = FieldC.tag

\* C8: a decoding call changes no byte of memory and allocates nothing, and
\* made again on the same record (with the same answer of the resolver) it
\* returns the same result; NewName alone allocates: it adds one block, its
\* own buffer, and leaves every block there was as it was.
C8_Frame ==
    [][/\ ret'.op \in DecodeOps =>
            /\ heap' = heap
            /\ names' = names
            /\ made' = made
            /\ (ret.op = ret'.op /\ ret.n = ret'.n /\ ret.call.res = ret'.call.res) => ret' = ret
       /\ heap' # heap =>
            /\ ret'.op = "NewName"
            /\ Len(heap') = Len(heap) + 1
            /\ SubSeq(heap', 1, Len(heap)) = heap
            /\ ret'.val = [blk |-> Len(heap'), off |-> 0]
            /\ names' = names \cup {ret'.val}
       /\ ret'.op = "NewName" /\ ret' # ret => heap' # heap]_vars

C8_Witness ==
    /\ ret.op = "Tag"
    /\ ret.n \in Constructed
    /\ ret.text = sJsonF
    /\ heap[1] = ModuleData(decl, bigEndian)

\* the bytes NewName is to lay out for its arguments
Layout(in) ==
    <<(IF in.exported THEN 1 ELSE 0) + (IF Len(in.tag) > 0 THEN 2 ELSE 0),
      Len(in.n) \div 256, Len(in.n) % 256>>
    \o in.n
    \o (IF Len(in.tag) > 0
        THEN <<Len(in.tag) \div 256, Len(in.tag) % 256>> \o in.tag
        ELSE <<>>)

\* C9: the buffer of NewName is 3 + len(n) bytes for an empty tag and
\* 3 + len(n) + 2 + len(tag) bytes otherwise: the flag byte (bit 0 iff
\* exported, bit 1 iff the tag is not empty, no other bit), the length of n
\* in two bytes, high byte first, the bytes of n, and for a tag that is not
\* empty its length in two bytes, high byte first, and its bytes; the record
\* returned points at the first byte of the buffer.
C9_Layout ==
    /\ \A n \in Constructed :
        /\ n.off = 0
        /\ heap[n.blk] = Layout(MadeOf(n))
        /\ Len(heap[n.blk]) = 3 + Len(MadeOf(n).n)
                              + (IF MadeOf(n).tag = <<>> THEN 0 ELSE 2 + Len(MadeOf(n).tag))
        /\ heap[n.blk][1] \in 0..3
        /\ HasBit(heap[n.blk][1], 1) <=> MadeOf(n).exported
        /\ HasBit(heap[n.blk][1], 2) <=> Len(MadeOf(n).tag) > 0
    /\ ret.op = "NewName" => ret.val = [blk |-> Len(heap), off |-> 0]

C9_Witness ==
    /\ ret.op = "NewName"
    /\ Len(ret.in.n) = 257
    /\ Len(ret.in.tag) = 256
    /\ ret.in.exported
    /\ SubSeq(heap[ret.val.blk], 1, 3) = <<3, 1, 1>>
    /\ SubSeq(heap[ret.val.blk], 261, 262) = <<1, 0>>
    /\ Len(heap[ret.val.blk]) = 518

\* whether a pointer is to a byte of the block of n
InBlockOf(n, p) == p.blk = n.blk /\ p.off >= 0 /\ p.off < Len(heap[n.blk])

\* whether the bytes a string covers are bytes of the block of n
SpanInBlockOf(n, s) ==
    s.Len = 0 \/ (s.Data.blk = n.blk /\ s.Data.off >= 0
                  /\ s.Data.off + s.Len <= Len(heap[n.blk]))

\* C10: on a record of NewName every byte the decoding methods dereference,
\* and every byte the strings of Name() and Tag() cover, is a byte of the
\* buffer NewName allocated, also for an empty identifier and an empty tag.
C10_ReadsInBuffer ==
    /\ \A n \in Constructed : \A j \in Junk :
        /\ \A p \in IsExported(heap, n, j).rd \cup NameLen(heap, n, j).rd
                    \cup TagLen(heap, n, j).rd \cup Name(heap, n, j).rd
                    \cup Tag(heap, n, j).rd : InBlockOf(n, p)
        /\ \A res \in ResolverResults :
               \A p \in PkgPath(heap, n, j, bigEndian, res).rd : InBlockOf(n, p)
        /\ SpanInBlockOf(n, Name(heap, n, j).val)
        /\ SpanInBlockOf(n, Tag(heap, n, j).val)
    /\ ret.op \in DecodeOps /\ ret.n \in Constructed =>
        /\ \A p \in ret.rd : InBlockOf(ret.n, p)
        /\ ret.op \in {"Name", "Tag", "PkgPath"} => SpanInBlockOf(ret.n, ret.val)

C10_Witness ==
    /\ ret.op = "Name"
    /\ ret.n \in Constructed
    /\ MadeOf(ret.n).n = <<>>
    /\ MadeOf(ret.n).tag = <<>>
    /\ Len(heap[ret.n.blk]) = 3
    /\ ret.val = [Data |-> [blk |-> ret.n.blk, off |-> 3], Len |-> 0]
    /\ ret.rd = {[blk |-> ret.n.blk, off |-> 1], [blk |-> ret.n.blk, off |-> 2]}

====
